---- MODULE Spec2Model ----
(***************************************************************************)
(* Model of the semantic matcher of research-emailer (src/matcher.py) and  *)
(* of the configuration and result records of src/data_models.py.          *)
(*                                                                         *)
(* A SemanticMatcher holds one field, self.config.  Its methods are pure   *)
(* functions of self.config and of their arguments; each action below is   *)
(* one call of one method, with its arguments drawn from bounded sets, and *)
(* records the call (arguments, returned value or raised exception, the    *)
(* embedding calls made, and the arguments as the call leaves them) in the *)
(* variable call.                                                          *)
(*                                                                         *)
(* An EmailDispatcher (src/email_dispatcher.py) holds the lists            *)
(* sent_emails and failed_emails, kept in the variable dispatcher; the     *)
(* variable history records every send_email call made on it and the       *)
(* counters its batches returned.  The SMTP server is outside the          *)
(* repository: whether a send goes through or raises is an input.  The     *)
(* match command of src/main.py is one action, its options, files,         *)
(* prompts and environment drawn from bounded sets.                        *)
(*                                                                         *)
(* Floats are exact rationals <<n, d>> in lowest terms, plus NaN.  Text is *)
(* a sequence of one-character strings.  The sentence-embedding model and  *)
(* sklearn's cosine_similarity are outside the repository: the cosine they *)
(* yield for a pair of texts is an input, carried by the startup record in *)
(* its field sem (one answer per embedding call made for that startup), or *)
(* the value Unavailable when the provider raises instead of answering.    *)
(***************************************************************************)
EXTENDS Integers, Sequences, FiniteSets, TLC

VARIABLES config, call, dispatcher, history

vars == <<config, call, dispatcher, history>>

(* The state of the EmailDispatcher, and the record of what it was asked. *)
mail == <<dispatcher, history>>

---------------------------------------------------------------------------
(* Bounds of the model. *)

MaxStartups == 3
MaxProjects == 3
MaxTags == 2
MaxChars == 3
MaxSends == 2

---------------------------------------------------------------------------
(* Floating-point values: rationals <<n, d>>, d > 0, in lowest terms. *)

RECURSIVE Gcd(_, _)
Gcd(a, b) == IF b = 0 THEN a ELSE Gcd(b, a % b)

Abs(n) == IF n < 0 THEN -n ELSE n

NaN == <<0, 0>>

R(n, d) ==
    LET g == Gcd(Abs(n), d)
    IN  <<n \div g, d \div g>>

IsNaN(a) == a[2] = 0

FAdd(a, b) ==
    IF IsNaN(a) \/ IsNaN(b) THEN NaN
    ELSE R(a[1] * b[2] + b[1] * a[2], a[2] * b[2])

FMul(a, b) ==
    IF IsNaN(a) \/ IsNaN(b) THEN NaN
    ELSE R(a[1] * b[1], a[2] * b[2])

(* Comparisons: every comparison with NaN is false. *)
FLt(a, b) == ~IsNaN(a) /\ ~IsNaN(b) /\ a[1] * b[2] < b[1] * a[2]
FGt(a, b) == FLt(b, a)
FGe(a, b) == ~IsNaN(a) /\ ~IsNaN(b) /\ a[1] * b[2] >= b[1] * a[2]
FLe(a, b) == FGe(b, a)
FEq(a, b) == ~IsNaN(a) /\ ~IsNaN(b) /\ a = b

Zero == R(0, 1)
One == R(1, 1)

(* Python's min(a, b) and max(a, b) on two arguments: the first argument is
   kept unless the second compares strictly smaller (larger). *)
PyMin(a, b) == IF FLt(b, a) THEN b ELSE a
PyMax(a, b) == IF FGt(b, a) THEN b ELSE a

RECURSIVE SumSeq(_)
SumSeq(xs) == IF xs = <<>> THEN Zero ELSE FAdd(Head(xs), SumSeq(Tail(xs)))

(* numpy.mean of a list: NaN for the empty list. *)
NpMean(xs) ==
    IF xs = <<>> THEN NaN ELSE FMul(SumSeq(xs), R(1, Len(xs)))

(* Python's xs[:k]: a negative k counts from the end. *)
SliceTo(xs, k) ==
    LET n == IF k >= 0 THEN (IF k < Len(xs) THEN k ELSE Len(xs))
             ELSE (IF Len(xs) + k > 0 THEN Len(xs) + k ELSE 0)
    IN  SubSeq(xs, 1, n)

Range(xs) == {xs[i] : i \in 1..Len(xs)}

(* Forces a sequence given as a function to its elements. *)
Elements(xs) == <<>> \o xs

SeqsUpTo(S, n) == UNION {[1..m -> S] : m \in 0..n}

(* The lists of at most n elements of S that hold no element twice. *)
DistinctSeqsUpTo(S, n) ==
    {xs \in SeqsUpTo(S, n) : Cardinality(Range(xs)) = Len(xs)}

---------------------------------------------------------------------------
(* Text: sequences of characters. *)

UpperChars == {"P", "A", "R", "W", "S", "Q", "L", "H"}
LowerChars ==
    {"p", "a", "r", "w", "s", "q", "l", "h",
     "y", "u", "b", "t", "o", "n", "e", "c", "g"}
WordOnly == {"_", "3"}
PunctChars == {"+", "-", "."}
SpaceChars == {" "}

LowerChar(c) ==
    CASE c = "P" -> "p"
      [] c = "A" -> "a"
      [] c = "R" -> "r"
      [] c = "W" -> "w"
      [] c = "S" -> "s"
      [] c = "Q" -> "q"
      [] c = "L" -> "l"
      [] c = "H" -> "h"
      [] OTHER -> c

StrLower(t) == Elements([i \in 1..Len(t) |-> LowerChar(t[i])])

(* \w of Python's re on str: letters, digits and the underscore. *)
IsWordChar(c) == c \in UpperChars \cup LowerChars \cup WordOnly
IsSpaceChar(c) == c \in SpaceChars

RECURSIVE LStrip(_)
LStrip(t) ==
    IF t # <<>> /\ IsSpaceChar(Head(t)) THEN LStrip(Tail(t)) ELSE t

RECURSIVE RStrip(_)
RStrip(t) ==
    IF t # <<>> /\ IsSpaceChar(t[Len(t)])
    THEN RStrip(SubSeq(t, 1, Len(t) - 1)) ELSE t

StrStrip(t) == RStrip(LStrip(t))

(* re.sub(r'\s+', ' ', t): every run of whitespace becomes one space. *)
RECURSIVE CollapseSpaces(_)
CollapseSpaces(t) ==
    IF t = <<>> THEN <<>>
    ELSE IF IsSpaceChar(Head(t))
         THEN <<" ">> \o CollapseSpaces(LStrip(t))
         ELSE <<Head(t)>> \o CollapseSpaces(Tail(t))

(* re.sub(r'[^\w\s]', ' ', t) *)
ReplaceNonWord(t) ==
    Elements([i \in 1..Len(t) |->
        IF IsWordChar(t[i]) \/ IsSpaceChar(t[i]) THEN t[i] ELSE " "])

_preprocess_text(text) ==
    IF text = <<>> THEN <<>>
    ELSE StrStrip(CollapseSpaces(ReplaceNonWord(StrLower(text))))

(* sep.join(parts) *)
RECURSIVE StrJoin(_, _)
StrJoin(sep, parts) ==
    IF parts = <<>> THEN <<>>
    ELSE IF Len(parts) = 1 THEN Head(parts)
    ELSE Head(parts) \o sep \o StrJoin(sep, Tail(parts))

---------------------------------------------------------------------------
(* Optional[...] fields. *)

None == [some |-> FALSE]
Some(v) == [some |-> TRUE, v |-> v]

(* The embedding provider's answer to one encode-and-compare call: a cosine,
   or no answer (encode raises). *)
Cos(n, d) == [ok |-> TRUE, cos |-> R(n, d)]
Unavailable == [ok |-> FALSE, cos |-> NaN]

(* Returned values of the component scorers: raised is TRUE when the call
   ended in the provider's exception, enc lists the embedding calls made. *)
Returned(v, names, enc) ==
    [raised |-> FALSE, val |-> v, names |-> names, enc |-> enc]
Raised(enc) ==
    [raised |-> TRUE, val |-> NaN, names |-> <<>>, enc |-> enc]

(* list.sort(key=..., reverse=True) as the permutation it applies to a list
   with the given keys: descending, equal keys keep their order. *)
RECURSIVE InsertDesc(_, _, _)
InsertDesc(perm, i, keys) ==
    IF perm = <<>> THEN <<i>>
    ELSE IF FLt(keys[Head(perm)], keys[i]) THEN <<i>> \o perm
    ELSE <<Head(perm)>> \o InsertDesc(Tail(perm), i, keys)

RECURSIVE SortPrefixDesc(_, _)
SortPrefixDesc(keys, n) ==
    IF n = 0 THEN <<>>
    ELSE InsertDesc(SortPrefixDesc(keys, n - 1), n, keys)

(* Mutant of the sort: descending, but equal keys come out in reverse
   order (an ascending sort read backwards). *)
RECURSIVE InsertDescFlipped(_, _, _)
InsertDescFlipped(perm, i, keys) ==
    IF perm = <<>> THEN <<i>>
    ELSE IF FLe(keys[Head(perm)], keys[i]) THEN <<i>> \o perm
    ELSE <<Head(perm)>> \o InsertDescFlipped(Tail(perm), i, keys)

RECURSIVE SortPrefixFlipped(_, _)
SortPrefixFlipped(keys, n) ==
    IF n = 0 THEN <<>>
    ELSE InsertDescFlipped(SortPrefixFlipped(keys, n - 1), n, keys)

ListSortReverse_TiesFlipped(keys) == SortPrefixFlipped(keys, Len(keys))

ListSortReverse(keys) == SortPrefixDesc(keys, Len(keys))

---------------------------------------------------------------------------
(* SemanticMatcher: the component scorers. *)

(* Mutant of the weight of the exact part: exact matches count for nothing. *)
TechExactWeight_None == Zero

TechExactWeight == R(7, 10)
TechSemanticWeight == R(3, 10)
RelevanceCutoff == R(3, 10)

(* Mutant of the score of a missing side: a neutral score, not zero. *)
TechMissingScore_Neutral == R(6, 10)

(* return 0.0 *)
TechMissingScore == Zero

(* Mutant of the empty-input test: only the candidate's side is tested. *)
TechInputMissing_UserOnly(user_tech, startup_tech) == user_tech = <<>>

(* if not user_tech or not startup_tech *)
TechInputMissing(user_tech, startup_tech) ==
    user_tech = <<>> \/ startup_tech = <<>>

_extract_tech_stack_similarity(user_tech, startup_tech, answer) ==
    IF TechInputMissing(user_tech, startup_tech)
    THEN Returned(TechMissingScore, <<>>, <<>>)
    ELSE
      LET user_tech_normalized ==
              Elements([i \in 1..Len(user_tech) |->
                           _preprocess_text(user_tech[i])])
          startup_tech_normalized ==
              Elements([i \in 1..Len(startup_tech) |->
                           _preprocess_text(startup_tech[i])])
          exact_matches ==
              Cardinality(Range(user_tech_normalized)
                          \cap Range(startup_tech_normalized))
          longest ==
              IF Len(user_tech_normalized) >= Len(startup_tech_normalized)
              THEN Len(user_tech_normalized)
              ELSE Len(startup_tech_normalized)
          exact_score == R(exact_matches, longest)
          combined_score ==
              FAdd(FMul(TechExactWeight, exact_score),
                   FMul(TechSemanticWeight, answer.cos))
      IN  IF ~answer.ok THEN Raised(<<"tech">>)
          ELSE Returned(PyMin(combined_score, One), <<>>, <<"tech">>)

RECURSIVE UserDomainText(_)
UserDomainText(projects) ==
    IF projects = <<>> THEN <<>>
    ELSE <<" ">> \o Head(projects).description \o <<" ">>
         \o StrJoin(<<" ">>, Head(projects).outcomes)
         \o UserDomainText(Tail(projects))

StartupDomainText(startup) ==
    startup.mission \o <<" ">> \o startup.product \o <<" ">>
    \o (IF startup.description.some THEN startup.description.v ELSE <<>>)

_extract_domain_similarity(user_profile, startup) ==
    IF StrStrip(UserDomainText(user_profile.projects)) = <<>>
       \/ StrStrip(StartupDomainText(startup)) = <<>>
    THEN Returned(Zero, <<>>, <<>>)
    ELSE IF ~startup.sem.domain.ok THEN Raised(<<"domain">>)
    ELSE Returned(PyMax(Zero, startup.sem.domain.cos), <<>>, <<"domain">>)

(* The loop of _extract_project_relevance: the number of encode calls made,
   which is the index of the first call that raises, or all of them. *)
RECURSIVE ProjectCalls(_, _)
ProjectCalls(answers, i) ==
    IF i > Len(answers) THEN Len(answers)
    ELSE IF ~answers[i].ok THEN i
    ELSE ProjectCalls(answers, i + 1)

(* if not user_profile.projects *)
HasNoProjects(user_profile) == user_profile.projects = <<>>

(* Mutant of the value returned for a profile without projects: a neutral
   score in place of 0.0. *)
NoProjectsResult_Neutral == Returned(R(1, 2), <<>>, <<>>)

(* return 0.0, [] *)
NoProjectsResult == Returned(Zero, <<>>, <<>>)

(* Mutant of the sort of project_scores: the list is left in input order. *)
SortProjectScores_Unsorted(project_scores) == project_scores

(* project_scores.sort(key=lambda x: x[1], reverse=True) *)
SortProjectScores(project_scores) ==
    LET order == ListSortReverse(
                     [i \in 1..Len(project_scores) |-> project_scores[i][2]])
    IN  [i \in 1..Len(project_scores) |-> project_scores[order[i]]]

(* The names, among the first max_matches_per_company sorted entries, of
   the projects scoring above the cutoff. *)
TopProjects(cfg, project_scores) ==
    LET top == SliceTo(project_scores, cfg.max_matches_per_company)
        picked == SelectSeq(top, LAMBDA ps : FGt(ps[2], RelevanceCutoff))
    IN  [i \in 1..Len(picked) |-> picked[i][1]]

(* Mutant of the average: only the entries above the cutoff are averaged. *)
AvgScore_AboveCutoff(cfg, project_scores) ==
    LET top == SliceTo(project_scores, cfg.max_matches_per_company)
        picked == SelectSeq(top, LAMBDA ps : FGt(ps[2], RelevanceCutoff))
    IN  IF picked # <<>>
        THEN NpMean([i \in 1..Len(picked) |-> picked[i][2]])
        ELSE Zero

(* np.mean over the first max_matches_per_company sorted entries; the
   guard tests project_scores, not the slice. *)
AvgScore(cfg, project_scores) ==
    LET top == SliceTo(project_scores, cfg.max_matches_per_company)
    IN  IF project_scores # <<>>
        THEN NpMean([i \in 1..Len(top) |-> top[i][2]])
        ELSE Zero

_extract_project_relevance(cfg, user_profile, startup) ==
    IF HasNoProjects(user_profile)
    THEN NoProjectsResult
    ELSE
      LET n == Len(user_profile.projects)
          answers == SubSeq(startup.sem.project, 1, n)
          made == ProjectCalls(answers, 1)
          enc == [i \in 1..made |-> "project"]
          project_scores ==
              SortProjectScores(
                  [i \in 1..n |->
                      <<user_profile.projects[i].name, answers[i].cos>>])
          top_projects == TopProjects(cfg, project_scores)
          avg_score == AvgScore(cfg, project_scores)
      IN  IF \E i \in 1..n : ~answers[i].ok THEN Raised(enc)
          ELSE Returned(avg_score, top_projects, enc)

---------------------------------------------------------------------------
(* SemanticMatcher: aggregation and ranking. *)

(* One rationale bullet: the template used and the values formatted in. *)
Bullet(kind, n, names) == [kind |-> kind, n |-> n, names |-> names]

(* Mutant of the order of the appends: the domain bullet comes first. *)
RationaleOrder_DomainFirst(tech, domain, projects, stage, team) ==
    domain \o tech \o projects \o stage \o team

(* The order in which the blocks of _generate_rationale append. *)
RationaleOrder(tech, domain, projects, stage, team) ==
    tech \o domain \o projects \o stage \o team

_generate_rationale(tech_score, domain_score, project_score, relevant_projects, startup) ==
    LET lowered == {StrLower(startup.tech_stack[i]) :
                        i \in 1..Len(startup.tech_stack)}
        tech_overlap == Cardinality(lowered \cap lowered)
        tech ==
            IF FGt(tech_score, R(1, 2))
            THEN IF tech_overlap > 0
                 THEN <<Bullet("tech_matching", tech_overlap, <<>>)>>
                 ELSE <<Bullet("tech_generic", 0, <<>>)>>
            ELSE <<>>
        domain ==
            IF FGt(domain_score, R(6, 10))
            THEN <<Bullet("domain_strong", 0, <<>>)>>
            ELSE IF FGt(domain_score, R(4, 10))
            THEN <<Bullet("domain_moderate", 0, <<>>)>>
            ELSE <<>>
        projects ==
            IF relevant_projects = <<>> THEN <<>>
            ELSE IF Len(relevant_projects) = 1
            THEN <<Bullet("project_direct", 0, <<relevant_projects[1]>>)>>
            ELSE <<Bullet("project_multiple", 0, SliceTo(relevant_projects, 2))>>
        stage ==
            IF startup.funding_stage.some
            THEN <<Bullet("funding_stage", 0, <<startup.funding_stage.v>>)>>
            ELSE <<>>
        team ==
            IF startup.team_size.some /\ startup.team_size.v # 0
               /\ startup.team_size.v < 50
            THEN <<Bullet("early_stage", 0, <<>>)>>
            ELSE <<>>
    IN  RationaleOrder(tech, domain, projects, stage, team)

RECURSIVE ProjectTech(_)
ProjectTech(projects) ==
    IF projects = <<>> THEN <<>>
    ELSE Head(projects).tech_stack \o ProjectTech(Tail(projects))

MatchRationale(tech, domain, project, overall, reasoning) ==
    [tech_stack_alignment |-> tech, domain_alignment |-> domain,
     project_relevance |-> project, overall_score |-> overall,
     reasoning |-> reasoning]

WeightedScore(cfg, tech_score, domain_score, project_score) ==
    FAdd(FAdd(FMul(cfg.include_tech_stack_weight, tech_score),
              FMul(cfg.include_domain_weight, domain_score)),
         FMul(cfg.include_project_weight, project_score))

(* Returns [raised, score, rationale, relevant_projects, enc]; the scorers
   run in the order tech, domain, project, and the first one that raises
   ends the call. *)
calculate_match_score(cfg, user_profile, startup) ==
    LET tech == _extract_tech_stack_similarity(
                    ProjectTech(user_profile.projects) \o user_profile.skills,
                    startup.tech_stack, startup.sem.tech)
        domain == _extract_domain_similarity(user_profile, startup)
        project == _extract_project_relevance(cfg, user_profile, startup)
        overall_score == WeightedScore(cfg, tech.val, domain.val, project.val)
        rationale_points ==
            _generate_rationale(tech.val, domain.val, project.val,
                                project.names, startup)
    IN  IF tech.raised THEN [raised |-> TRUE, enc |-> tech.enc]
        ELSE IF domain.raised
        THEN [raised |-> TRUE, enc |-> tech.enc \o domain.enc]
        ELSE IF project.raised
        THEN [raised |-> TRUE, enc |-> tech.enc \o domain.enc \o project.enc]
        ELSE [raised |-> FALSE,
              score |-> overall_score,
              rationale |-> MatchRationale(tech.val, domain.val, project.val,
                                           overall_score, rationale_points),
              relevant_projects |-> project.names,
              enc |-> tech.enc \o domain.enc \o project.enc]

(* Mutant of the match built: a missing contact name is filled in, and a
   match scoring 0.8 or more is approved for sending. *)
EmailMatch_Synthetic(startup, scored) ==
    [company_name |-> startup.company_name,
     contact_email |-> startup.contact_email,
     contact_name |-> IF startup.contact_name.some THEN startup.contact_name
                      ELSE [some |-> TRUE, v |-> <<"T", "e", "a", "m">>],
     relevant_projects |-> scored.relevant_projects,
     rationale |-> scored.rationale,
     email_body |-> <<>>,
     subject_line |-> <<>>,
     match_score |-> scored.score,
     auto_send |-> FGe(scored.score, R(8, 10))]

EmailMatch(startup, scored) ==
    [company_name |-> startup.company_name,
     contact_email |-> startup.contact_email,
     contact_name |-> startup.contact_name,
     relevant_projects |-> scored.relevant_projects,
     rationale |-> scored.rationale,
     email_body |-> <<>>,
     subject_line |-> <<>>,
     match_score |-> scored.score,
     auto_send |-> FALSE]

(* Mutants of the threshold test: the filter dropped; a strict comparison;
   a comparison that is strict for one email tone only. *)
ClearsThreshold_Always(cfg, score) == ~IsNaN(score)
ClearsThreshold_Strict(cfg, score) == FGt(score, cfg.min_score_threshold)
ClearsThreshold_ByTone(cfg, score) ==
    IF cfg.email_tone = "casual"
    THEN FGt(score, cfg.min_score_threshold)
    ELSE FGe(score, cfg.min_score_threshold)

(* if score >= self.config.min_score_threshold *)
ClearsThreshold(cfg, score) == FGe(score, cfg.min_score_threshold)

(* Mutant of the loop: a running best score is shared between the scorings,
   and a startup is kept only if no earlier startup of the list scored
   strictly higher. *)
RECURSIVE MatchLoop_RunningBest(_, _, _, _)
MatchLoop_RunningBest(cfg, user_profile, startups, i) ==
    IF i > Len(startups) THEN [raised |-> FALSE, matches |-> <<>>]
    ELSE
      LET scored == calculate_match_score(cfg, user_profile, startups[i])
          rest == MatchLoop_RunningBest(cfg, user_profile, startups, i + 1)
          beaten ==
              \E j \in 1..(i - 1) :
                  FGt(calculate_match_score(cfg, user_profile, startups[j]).score,
                      scored.score)
      IN  IF scored.raised THEN [raised |-> TRUE, matches |-> <<>>]
          ELSE IF rest.raised THEN rest
          ELSE IF ClearsThreshold(cfg, scored.score) /\ ~beaten
          THEN [raised |-> FALSE,
                matches |-> <<EmailMatch(startups[i], scored)>> \o rest.matches]
          ELSE rest

(* The loop of find_matches over startups[i..]: the matches appended, in
   input order, or the exception of the first scoring that raises. *)
RECURSIVE MatchLoop(_, _, _, _)
MatchLoop(cfg, user_profile, startups, i) ==
    IF i > Len(startups) THEN [raised |-> FALSE, matches |-> <<>>]
    ELSE
      LET scored == calculate_match_score(cfg, user_profile, startups[i])
          rest == MatchLoop(cfg, user_profile, startups, i + 1)
      IN  IF scored.raised THEN [raised |-> TRUE, matches |-> <<>>]
          ELSE IF rest.raised THEN rest
          ELSE IF ClearsThreshold(cfg, scored.score)
          THEN [raised |-> FALSE,
                matches |-> <<EmailMatch(startups[i], scored)>> \o rest.matches]
          ELSE rest

SortMatches(matches) ==
    LET order == ListSortReverse([i \in 1..Len(matches) |-> matches[i].match_score])
    IN  [i \in 1..Len(matches) |-> matches[order[i]]]

find_matches(cfg, user_profile, startups) ==
    LET looped == MatchLoop(cfg, user_profile, startups, 1)
    IN  IF looped.raised THEN looped
        ELSE [raised |-> FALSE, matches |-> SortMatches(looped.matches)]

(* Mutant of the arguments left behind: the input list is reversed in
   place. *)
ArgumentsLeft_Reversed(user_profile, startups) ==
    [user_profile |-> user_profile,
     startups |-> [i \in 1..Len(startups) |-> startups[Len(startups) + 1 - i]]]

(* The caller's objects as calculate_match_score and find_matches leave
   them.  Both receive them by reference and only read them: the technology
   list is built by a comprehension and +, which make new lists, and the
   list that is appended to and sorted is the local matches. *)
ArgumentsLeft(user_profile, startups) ==
    [user_profile |-> user_profile, startups |-> startups]

(* Mutant of the config left behind: the call narrows the number of
   projects the matcher considers from then on. *)
ConfigLeft_Narrowed(cfg) == [cfg EXCEPT !.max_matches_per_company = 1]

(* self.config as calculate_match_score and find_matches leave it: it is
   assigned in __init__ only, and the methods read its fields. *)
ConfigLeft(cfg) == cfg

---------------------------------------------------------------------------
(* MatchingConfig and the records handed to the matcher. *)

(* MatchingConfig with keyword arguments: a pydantic model with typed fields and
   defaults; it declares no validator, so every well-typed value is kept. *)
MatchingConfig(threshold, max_matches, w_tech, w_domain, w_project) ==
    [min_score_threshold |-> threshold,
     max_matches_per_company |-> max_matches,
     include_tech_stack_weight |-> w_tech,
     include_domain_weight |-> w_domain,
     include_project_weight |-> w_project,
     email_tone |-> "confident",
     email_length |-> "concise"]

DefaultConfig == MatchingConfig(R(6, 10), 3, R(4, 10), R(3, 10), R(3, 10))

(* The values the field descriptions of email_tone and email_length list
   (the fields are plain str: any string is accepted). *)
EmailTones == {"confident", "professional", "casual"}
EmailLengths == {"concise", "detailed", "brief"}

(* MatchingConfig(..., email_tone=tone, email_length=length) *)
WithPresentation(cfg, tone, length) ==
    [cfg EXCEPT !.email_tone = tone, !.email_length = length]

ConfigInputs ==
    {DefaultConfig,
     MatchingConfig(R(6, 10), 2, R(4, 10), R(3, 10), R(3, 10)),
     MatchingConfig(R(6, 10), 0, R(4, 10), R(3, 10), R(3, 10)),
     MatchingConfig(R(6, 10), -1, R(4, 10), R(3, 10), R(3, 10)),
     MatchingConfig(R(6, 10), 3, Zero, One, Zero),
     MatchingConfig(R(6, 10), 3, R(9, 10), R(3, 10), R(3, 10)),
     MatchingConfig(R(3, 2), 3, R(4, 10), R(3, 10), R(3, 10)),
     WithPresentation(DefaultConfig, "casual", "detailed")}

Project(name, description, tech_stack, outcomes) ==
    [name |-> name, description |-> description,
     tech_stack |-> tech_stack, outcomes |-> outcomes]

UserProfile(projects, skills) == [projects |-> projects, skills |-> skills]

Sem(tech, domain, project) ==
    [tech |-> tech, domain |-> domain, project |-> project]

Startup(company_name, mission, product, tech_stack, description, sem) ==
    [company_name |-> company_name, mission |-> mission, product |-> product,
     tech_stack |-> tech_stack, team_size |-> None, funding_stage |-> None,
     contact_email |-> None, contact_name |-> None,
     description |-> description, sem |-> sem]

(* Startup(..., funding_stage=funding_stage, team_size=team_size) *)
WithStage(startup, funding_stage, team_size) ==
    [startup EXCEPT !.funding_stage = funding_stage, !.team_size = team_size]

(* Startup(..., contact_email=email, contact_name=name) *)
WithContact(startup, email, name) ==
    [startup EXCEPT !.contact_email = email, !.contact_name = name]

---------------------------------------------------------------------------
(* Inputs. *)

TagPy == <<"P", "y">>
TagPyLower == <<"p", "y">>
TagRb == <<"R", "b">>
Tags == {TagPy, TagPyLower, TagRb}
UserTagLists == SeqsUpTo(Tags, MaxTags)
StartupTagLists ==
    {<<>>, <<TagPy>>, <<TagRb>>, <<TagPy, TagRb>>, <<TagPyLower, TagPy>>}

TechAnswers == {Cos(-1, 1), Cos(1, 2), Cos(1, 1), Unavailable}

(* The i-th project name: distinct names for distinct i. *)
ProjectName(i) == [j \in 1..i |-> "p"]

(* Profiles for the domain scorer: what the description and outcomes hold. *)
DomainProjects ==
    {Project(<<"p">>, d, <<>>, o) :
        d \in {<<>>, <<"-">>, <<"a">>}, o \in {<<>>, <<<<"b">>>>}}
DomainProfiles ==
    {UserProfile(<<>>, <<>>)}
    \cup {UserProfile(<<p>>, <<>>) : p \in DomainProjects}
    \cup {UserProfile(<<Project(<<"u">>, <<>>, <<>>, <<>>), p>>, <<>>) :
            p \in DomainProjects}
DomainStartups ==
    {Startup(<<"s">>, m, pr, <<>>, de, Sem(Unavailable, a, <<>>)) :
        m \in {<<>>, <<" ">>, <<"a">>}, pr \in {<<>>, <<"-">>},
        de \in {None, Some(<<>>), Some(<<"a">>)},
        a \in {Cos(-1, 2), Cos(1, 2), Unavailable}}

(* Profiles for the project scorer: n projects with distinct names. *)
PlainProjects(n, tech, description) ==
    [i \in 1..n |-> Project(ProjectName(i), description, tech, <<>>)]
ProjectAnswers == {Cos(-1, 5), Cos(3, 10), Cos(2, 5), Cos(9, 10), Unavailable}
ProjectProfiles ==
    {UserProfile(PlainProjects(n, <<>>, <<"a">>), <<>>) : n \in 0..MaxProjects}
ProjectStartups(n) ==
    {Startup(<<"s">>, <<"a">>, <<>>, <<>>, None, Sem(Unavailable, Unavailable, a)) :
        a \in [1..n -> ProjectAnswers]}

(* Contact addresses (EmailStr: a local part, @, a dotted domain). *)
ContactA == <<"a", "@", "a", ".", "a", "a">>
ContactB == <<"b", "@", "a", ".", "a", "a">>

(* Profiles and startups for calculate_match_score. *)
ScoreProfiles ==
    {UserProfile(<<>>, sk) : sk \in {<<>>, <<TagPy>>}}
    \cup {UserProfile(PlainProjects(n, t[1], t[2]), sk) :
            n \in {1, 2},
            t \in {<<<<>>, <<>>>>, <<<<TagPyLower>>, <<"a">>>>},
            sk \in {<<>>, <<TagPy>>}}
ScoreStartups(n) ==
    {Startup(<<"s">>, m, <<>>, t, None, Sem(st, sd, sp)) :
        m \in {<<>>, <<"a">>}, t \in {<<>>, <<TagPy>>},
        st \in {Cos(-1, 1), Cos(1, 1)},
        sd \in {Cos(-1, 2), Cos(1, 2), Unavailable},
        sp \in [1..n -> {Cos(-1, 5), Cos(9, 10)}]}

(* The scenario of the tech-stack comparison: skills Python and React, one
   project tagged Python and PostgreSQL whose description the startup's
   mission overlaps closely; a startup on Python and AWS and one on Ruby and
   PHP, each with the cosine the provider may give for its stack. *)
TagPython == <<"P", "y", "t", "h", "o", "n">>
TagReact == <<"R", "e", "a", "c", "t">>
TagPostgreSQL == <<"P", "o", "s", "t", "g", "r", "e", "S", "Q", "L">>
TagAWS == <<"A", "W", "S">>
TagRuby == <<"R", "u", "b", "y">>
TagPHP == <<"P", "H", "P">>
StackPythonAWS == <<TagPython, TagAWS>>
StackRubyPHP == <<TagRuby, TagPHP>>
ScenarioProfile ==
    UserProfile(<<Project(<<"p">>, <<"a">>, <<TagPython, TagPostgreSQL>>, <<>>)>>,
                <<TagPython, TagReact>>)
ScenarioAnswers == {Cos(-1, 4), Cos(0, 1), Cos(1, 2), Cos(7, 12), Cos(1, 1)}
ScenarioStartup(tech_stack, st) ==
    Startup(<<"s">>, <<"a">>, <<>>, tech_stack, None,
            Sem(st, Cos(9, 10), <<Cos(9, 10)>>))
ScenarioStartups ==
    {ScenarioStartup(t, st) :
        t \in {StackPythonAWS, StackRubyPHP}, st \in ScenarioAnswers}

(* The scenario of the rationale: a candidate with the skill Py and as many
   projects as the bound allows; startups on Py alone or on Py and Rb (each
   stack with the cosine the provider gives for it), whose first j project
   answers are above the relevance cutoff, with and without a funding stage
   and a team size. *)
RationaleProfile ==
    UserProfile(PlainProjects(MaxProjects, <<>>, <<"a">>), <<TagPy>>)
FirstRelevant(j) ==
    [i \in 1..MaxProjects |-> IF i <= j THEN Cos(9, 10) ELSE Cos(-1, 5)]
RationaleStacks ==
    {<<<<TagPy>>, Cos(1, 1)>>,
     <<<<TagPy, TagRb>>, Cos(1, 1)>>,
     <<<<TagPy, TagRb>>, Cos(0, 1)>>}
RationaleStages ==
    {<<None, None>>, <<Some("Seed"), None>>, <<None, Some(10)>>,
     <<Some("Seed"), Some(10)>>, <<None, Some(50)>>}
RationaleStartups ==
    {WithStage(Startup(<<"s">>, <<"a">>, <<>>, t[1], None,
                       Sem(t[2], sd, FirstRelevant(j))), m[1], m[2]) :
        t \in RationaleStacks,
        sd \in {Cos(3, 10), Cos(1, 2), Cos(9, 10)},
        j \in 0..MaxProjects,
        m \in RationaleStages}

(* The startups a profile is scored against. *)
ScoreStartupsFor(user_profile) ==
    IF user_profile = ScenarioProfile THEN ScenarioStartups
    ELSE IF user_profile = RationaleProfile THEN RationaleStartups
    ELSE ScoreStartups(Len(user_profile.projects))

(* Matches handed to the dispatcher: companies a and b; a without a contact
   address, with an empty one, or with one; each approved for sending or
   not. *)
DispatchMatch(company_name, contact_email, auto_send) ==
    [company_name |-> company_name,
     contact_email |-> contact_email,
     contact_name |-> None,
     relevant_projects |-> <<>>,
     rationale |-> MatchRationale(One, One, One, R(9, 10), <<>>),
     email_body |-> <<"h", "i">>,
     subject_line |-> <<"s">>,
     match_score |-> R(9, 10),
     auto_send |-> auto_send]
DispatchMatches ==
    {DispatchMatch(<<"a">>, e, f) :
        e \in {None, Some(ContactA)}, f \in BOOLEAN}
    \cup {DispatchMatch(<<"a">>, Some(<<>>), TRUE)}
    \cup {DispatchMatch(<<"b">>, Some(ContactB), f) : f \in BOOLEAN}

(* Texts for the normalizer. *)
NormalizerChars == {"A", "a", "3", "_", "-", " "}
NormalizerInputs ==
    {None} \cup {Some(t) : t \in SeqsUpTo(NormalizerChars, MaxChars)}

(* Profiles and startups for find_matches: one project, or skills only. *)
RankProfiles ==
    {UserProfile(<<>>, <<TagPy>>),
     UserProfile(PlainProjects(1, <<TagPyLower>>, <<"a">>), <<>>)}
RankStartup(name, tech_stack, st, sd, sp) ==
    Startup(name, <<"a">>, <<>>, tech_stack, None, Sem(st, sd, <<sp>>))
RankStartups ==
    {WithContact(
         RankStartup(<<"a">>, <<TagPy>>, Cos(1, 1), Cos(9, 10), Cos(9, 10)),
         Some(ContactA), Some(<<"A">>)),
     WithContact(
         RankStartup(<<"b">>, <<TagPy>>, Cos(0, 1), Cos(1, 2), Cos(1, 2)),
         Some(ContactB), None),
     RankStartup(<<"a">>, <<TagPy>>, Cos(1, 1), Cos(7, 10), Cos(7, 10)),
     WithContact(
         RankStartup(<<"b">>, <<TagPy>>, Cos(1, 1), Cos(7, 10), Cos(7, 10)),
         None, Some(<<"B">>)),
     RankStartup(<<"a">>, <<TagPy>>, Cos(1, 1), Cos(6, 10), Cos(6, 10)),
     RankStartup(<<"a">>, <<TagPy>>, Cos(1, 1), Unavailable, Cos(9, 10))}

(* The profile and the startups of the files the command loads: one
   startup scoring above 0.8, two scoring between 0.6 and 0.8, and one for
   which the provider raises. *)
CliProfile == UserProfile(PlainProjects(1, <<TagPyLower>>, <<"a">>), <<>>)
CliStartups ==
    {WithContact(
         RankStartup(<<"a">>, <<TagPy>>, Cos(1, 1), Cos(9, 10), Cos(9, 10)),
         Some(ContactA), Some(<<"A">>)),
     WithContact(
         RankStartup(<<"b">>, <<TagPy>>, Cos(1, 1), Cos(7, 10), Cos(7, 10)),
         Some(ContactB), None),
     RankStartup(<<"a">>, <<TagPy>>, Cos(1, 1), Cos(6, 10), Cos(6, 10)),
     RankStartup(<<"a">>, <<TagPy>>, Cos(1, 1), Unavailable, Cos(9, 10))}

(* --min-score: the default, and a value above 0.8. *)
CliMinScores == {R(6, 10), R(17, 20)}

---------------------------------------------------------------------------
(* EmailDispatcher (src/email_dispatcher.py).  The timestamps of the result
   records (datetime.now()) are left out.  The user_profile argument of
   send_email and send_batch_emails is passed on and never read. *)

(* EmailDispatcher(): both lists start empty. *)
EmailDispatcher == [sent_emails |-> <<>>, failed_emails |-> <<>>]

NoHistory == [send_email |-> <<>>, batch_failed |-> 0]

(* not match.contact_email: None or the empty string. *)
HasContactEmail(match) ==
    match.contact_email.some /\ match.contact_email.v # <<>>

(* send_email on dispatcher d; delivered says whether the SMTP exchange of
   the try block goes through (TRUE) or raises (FALSE).  Returns the result,
   the dispatcher as the call leaves it, and whether SMTP was attempted. *)
send_email(d, match, delivered) ==
    IF ~HasContactEmail(match)
    THEN [result |-> [success |-> FALSE,
                      error |-> "No contact email provided",
                      company |-> match.company_name],
          dispatcher |-> d,
          smtp |-> FALSE]
    ELSE IF delivered
    THEN LET result == [success |-> TRUE,
                        company |-> match.company_name,
                        contact_email |-> match.contact_email,
                        subject |-> match.subject_line,
                        match_score |-> match.match_score]
         IN  [result |-> result,
              dispatcher |-> [d EXCEPT !.sent_emails = Append(@, result)],
              smtp |-> TRUE]
    ELSE LET result == [success |-> FALSE,
                        error |-> "smtp",
                        company |-> match.company_name,
                        contact_email |-> match.contact_email]
         IN  [result |-> result,
              dispatcher |-> [d EXCEPT !.failed_emails = Append(@, result)],
              smtp |-> TRUE]

(* Mutant of the test that lets a match through to send_email. *)
ShouldSend_CallFlagOnly(auto_send, match) == auto_send

(* if auto_send and match.auto_send *)
ShouldSend(auto_send, match) == auto_send /\ match.auto_send

(* Mutant of the skipped branch: counted, no entry appended. *)
RecordSkipped_CounterOnly(results, match) ==
    [results EXCEPT !.skipped = @ + 1]

(* The else branch of the loop of send_batch_emails. *)
RecordSkipped(results, match) ==
    [results EXCEPT
        !.skipped = @ + 1,
        !.results = Append(@, [success |-> TRUE, skipped |-> TRUE,
                               company |-> match.company_name,
                               reason |-> "Auto-send disabled or match not marked for auto-send"])]

(* The sending branch of the loop, after send_email has returned result. *)
RecordSend(results, result) ==
    IF result.success
    THEN [results EXCEPT !.results = Append(@, result), !.sent = @ + 1]
    ELSE [results EXCEPT !.results = Append(@, result), !.failed = @ + 1]

(* The loop of send_batch_emails from match i on; acc holds the results
   dict, the dispatcher and the send_email calls made so far, each with the
   index of its match. *)
RECURSIVE BatchLoop(_, _, _, _, _)
BatchLoop(acc, matches, auto_send, delivered, i) ==
    IF i > Len(matches) THEN acc
    ELSE IF ShouldSend(auto_send, matches[i])
    THEN LET sent == send_email(acc.dispatcher, matches[i], delivered[i])
         IN  BatchLoop([results |-> RecordSend(acc.results, sent.result),
                        dispatcher |-> sent.dispatcher,
                        sends |-> Append(acc.sends,
                                         [index |-> i,
                                          result |-> sent.result,
                                          smtp |-> sent.smtp])],
                       matches, auto_send, delivered, i + 1)
    ELSE BatchLoop([acc EXCEPT
                       !.results = RecordSkipped(acc.results, matches[i])],
                   matches, auto_send, delivered, i + 1)

(* send_batch_emails on dispatcher d; delivered[i] is the SMTP outcome a
   send for matches[i] would meet. *)
send_batch_emails(d, matches, auto_send, delivered) ==
    BatchLoop([results |-> [total_matches |-> Len(matches), sent |-> 0,
                            failed |-> 0, skipped |-> 0, results |-> <<>>],
               dispatcher |-> d,
               sends |-> <<>>],
              matches, auto_send, delivered, 1)

get_sending_stats(d) ==
    LET total_sent == Len(d.sent_emails)
        total_failed == Len(d.failed_emails)
    IN  [total_sent |-> total_sent,
         total_failed |-> total_failed,
         success_rate |-> IF total_sent + total_failed > 0
                          THEN R(total_sent, total_sent + total_failed)
                          ELSE Zero,
         last_sent |-> IF total_sent > 0
                       THEN Some(d.sent_emails[total_sent]) ELSE None,
         last_failed |-> IF total_failed > 0
                         THEN Some(d.failed_emails[total_failed]) ELSE None]

---------------------------------------------------------------------------
(* The match command of the CLI (src/main.py) and the email generation it
   calls (src/email_generator.py). *)

(* MatchingConfig(min_score_threshold=min_score) *)
CliConfig(min_score) == [DefaultConfig EXCEPT !.min_score_threshold = min_score]

(* Variant of the generation in which generate_email returns a body and a
   subject for every match. *)
generate_emails_for_matches_Returning(matches) ==
    [raised |-> FALSE,
     matches |-> [i \in 1..Len(matches) |->
                     [matches[i] EXCEPT !.email_body = <<"h", "i">>,
                                        !.subject_line = <<"s">>]]]

(* Mutant of the generation: it returns, and approves every match. *)
generate_emails_for_matches_Approving(matches) ==
    [raised |-> FALSE,
     matches |-> [i \in 1..Len(matches) |->
                     [matches[i] EXCEPT !.email_body = <<"h", "i">>,
                                        !.subject_line = <<"s">>,
                                        !.auto_send = TRUE]]]

(* generate_emails_for_matches hands generate_email a dict as startup
   (startup_info), and generate_email reads startup.company_name and
   startup.contact_name as attributes, in the prompt it builds first when
   an API key is set and in the template it falls back to: for the first
   match the call raises AttributeError, before any match is updated.  An
   empty list is returned as it is. *)
generate_emails_for_matches(matches) ==
    IF matches = <<>> THEN [raised |-> FALSE, matches |-> matches]
    ELSE [raised |-> TRUE, matches |-> matches]

(* if auto_send: for match in matches_with_emails:
       if match.match_score >= 0.8: match.auto_send = True *)
AutoSendPolicy(auto_send, matches) ==
    IF auto_send
    THEN [i \in 1..Len(matches) |->
             IF FGe(matches[i].match_score, R(8, 10))
             THEN [matches[i] EXCEPT !.auto_send = TRUE]
             ELSE matches[i]]
    ELSE matches

(* How a run of the command ends: the stage reached, the matches as the run
   leaves them, and the send_email calls made. *)
Ended(stage, matches, sends) ==
    [stage |-> stage, matches |-> matches, sends |-> sends]

(* The value of a one-element set: binds a stage's result once. *)
Only(S) == CHOOSE x \in S : TRUE

(* The match command from the save on, the flags of the matches set: the
   output files are written and, under --auto-send, a new EmailDispatcher
   validates its configuration and sends the batch with auto_send=True. *)
MatchSaveAndSend(auto_send, matches_with_emails, saved, config_valid, delivered) ==
    IF ~saved THEN Ended("raised_saving", matches_with_emails, <<>>)
    ELSE IF ~auto_send THEN Ended("complete", matches_with_emails, <<>>)
    ELSE IF ~config_valid
    THEN Ended("config_invalid", matches_with_emails, <<>>)
    ELSE Ended("complete", matches_with_emails,
               send_batch_emails(
                   EmailDispatcher, matches_with_emails, TRUE,
                   [i \in 1..Len(matches_with_emails) |-> delivered]).sends)

(* The match command from the generation of the emails on. *)
MatchGenerateOn(auto_send, preview, matches, saved, config_valid, delivered) ==
    Only({IF generated.raised
          THEN Ended("raised_generating", generated.matches, <<>>)
          ELSE Only({IF preview = Some(FALSE)
                     THEN Ended("cancelled", matches_with_emails, <<>>)
                     ELSE MatchSaveAndSend(auto_send, matches_with_emails,
                                           saved, config_valid, delivered) :
                     matches_with_emails \in
                         {AutoSendPolicy(auto_send, generated.matches)}}) :
          generated \in {generate_emails_for_matches(matches)}})

(* The match command (the function match of main.py, named cli_match here)
   on a loaded profile and startup list.  preview is None without
   --preview, else the answer given to the confirmation prompt; saved says
   whether writing the output files goes through; config_valid is the
   outcome of validate_config; delivered is the SMTP outcome the sends of
   this run meet. *)
cli_match(auto_send, min_score, preview, user_profile, startup_list, saved, config_valid, delivered) ==
    Only({IF found.raised THEN Ended("raised_matching", <<>>, <<>>)
          ELSE IF found.matches = <<>> THEN Ended("no_matches", <<>>, <<>>)
          ELSE MatchGenerateOn(auto_send, preview, found.matches, saved,
                               config_valid, delivered) :
          found \in {find_matches(CliConfig(min_score), user_profile,
                                  startup_list)}})

---------------------------------------------------------------------------
(* The state machine: one matcher, one call at a time. *)

Idle == [op |-> "idle"]

Init ==
    /\ config = DefaultConfig
    /\ call = Idle
    /\ dispatcher = EmailDispatcher
    /\ history = NoHistory

(* SemanticMatcher(MatchingConfig(...)): a matcher over a new config. *)
NewMatcher ==
    /\ call = Idle
    /\ \E cfg \in ConfigInputs : config' = cfg
    /\ call' = Idle
    /\ UNCHANGED mail

ExtractTechStackSimilarity ==
    /\ call = Idle
    /\ \E user_tech \in UserTagLists, startup_tech \in StartupTagLists,
          answer \in TechAnswers :
         call' = [op |-> "_extract_tech_stack_similarity",
                  user_tech |-> user_tech, startup_tech |-> startup_tech,
                  answer |-> answer,
                  ret |-> _extract_tech_stack_similarity(
                              user_tech, startup_tech, answer)]
    /\ UNCHANGED config
    /\ UNCHANGED mail

ExtractDomainSimilarity ==
    /\ call = Idle
    /\ \E user_profile \in DomainProfiles, startup \in DomainStartups :
         call' = [op |-> "_extract_domain_similarity",
                  user_profile |-> user_profile, startup |-> startup,
                  ret |-> _extract_domain_similarity(user_profile, startup)]
    /\ UNCHANGED config
    /\ UNCHANGED mail

ExtractProjectRelevance ==
    /\ call = Idle
    /\ \E user_profile \in ProjectProfiles :
         \E startup \in ProjectStartups(Len(user_profile.projects)) :
           call' = [op |-> "_extract_project_relevance",
                    user_profile |-> user_profile, startup |-> startup,
                    ret |-> _extract_project_relevance(
                                config, user_profile, startup)]
    /\ UNCHANGED config
    /\ UNCHANGED mail

CalculateMatchScore ==
    /\ call = Idle
    /\ \E user_profile \in
            ScoreProfiles \cup {ScenarioProfile, RationaleProfile} :
         \E startup \in ScoreStartupsFor(user_profile) :
           call' = [op |-> "calculate_match_score",
                    user_profile |-> user_profile, startup |-> startup,
                    ret |-> calculate_match_score(config, user_profile, startup),
                    after |-> ArgumentsLeft(user_profile, <<startup>>)]
    /\ config' = ConfigLeft(config)
    /\ UNCHANGED mail

(* find_matches on a list of distinct startups. *)
FindMatches ==
    /\ call = Idle
    /\ \E user_profile \in RankProfiles,
          startups \in DistinctSeqsUpTo(RankStartups, MaxStartups) :
         call' = [op |-> "find_matches",
                  user_profile |-> user_profile, startups |-> startups,
                  ret |-> find_matches(config, user_profile, startups),
                  after |-> ArgumentsLeft(user_profile, startups)]
    /\ config' = ConfigLeft(config)
    /\ UNCHANGED mail

(* The caller calls the same method of the same matcher once more, on the
   objects of the call that has just ended, as that call left them; first
   is what the earlier call returned. *)
CalculateMatchScoreAgain ==
    /\ call.op = "calculate_match_score"
    /\ call' = [op |-> "calculate_match_score_again",
                user_profile |-> call.after.user_profile,
                startup |-> call.after.startups[1],
                first |-> call.ret,
                ret |-> calculate_match_score(config, call.after.user_profile,
                                              call.after.startups[1]),
                after |-> ArgumentsLeft(call.after.user_profile,
                                        call.after.startups)]
    /\ config' = ConfigLeft(config)
    /\ UNCHANGED mail

FindMatchesAgain ==
    /\ call.op = "find_matches"
    /\ call' = [op |-> "find_matches_again",
                user_profile |-> call.after.user_profile,
                startups |-> call.after.startups,
                first |-> call.ret,
                ret |-> find_matches(config, call.after.user_profile,
                                     call.after.startups),
                after |-> ArgumentsLeft(call.after.user_profile,
                                        call.after.startups)]
    /\ config' = ConfigLeft(config)
    /\ UNCHANGED mail

(* _preprocess_text(arg) where arg may be None: not text holds of None as
   of the empty string, and the empty string is returned. *)
PreprocessOptional(arg) ==
    IF ~arg.some THEN <<>> ELSE _preprocess_text(arg.v)

(* _preprocess_text on None or on a short text over letters of both cases,
   a digit, the underscore, punctuation and the space. *)
PreprocessText ==
    /\ call = Idle
    /\ \E text \in NormalizerInputs :
         call' = [op |-> "_preprocess_text", text |-> text,
                  ret |-> PreprocessOptional(text)]
    /\ UNCHANGED config
    /\ UNCHANGED mail

(* The normalizer run once more on what it has just returned. *)
PreprocessTextAgain ==
    /\ call.op = "_preprocess_text"
    /\ call' = [op |-> "_preprocess_text_again", text |-> Some(call.ret),
                first |-> call.ret,
                ret |-> PreprocessOptional(Some(call.ret))]
    /\ UNCHANGED config
    /\ UNCHANGED mail

(* EmailDispatcher(): a new dispatcher replaces the one in use. *)
NewDispatcher ==
    /\ call = Idle
    /\ dispatcher' = EmailDispatcher
    /\ history' = NoHistory
    /\ UNCHANGED <<config, call>>

(* The send_email calls still allowed on this dispatcher. *)
SendsLeft == MaxSends - Len(history.send_email)

(* send_email called directly. *)
SendEmail ==
    /\ call = Idle
    /\ SendsLeft > 0
    /\ \E match \in DispatchMatches, delivered \in BOOLEAN :
         LET sent == send_email(dispatcher, match, delivered)
         IN  /\ call' = [op |-> "send_email", match |-> match,
                         ret |-> sent.result, smtp |-> sent.smtp]
             /\ dispatcher' = sent.dispatcher
             /\ history' = [history EXCEPT
                               !.send_email =
                                   Append(@, [result |-> sent.result,
                                              smtp |-> sent.smtp])]
    /\ UNCHANGED config

(* The send_email calls a batch made, as history keeps them. *)
BatchSends(sends) ==
    [k \in 1..Len(sends) |->
        [result |-> sends[k].result, smtp |-> sends[k].smtp]]

SendBatchEmails ==
    /\ call = Idle
    /\ \E matches \in SeqsUpTo(DispatchMatches, SendsLeft),
          auto_send \in BOOLEAN :
         \E delivered \in [1..Len(matches) -> BOOLEAN] :
           LET batch == send_batch_emails(dispatcher, matches, auto_send,
                                          delivered)
           IN  /\ call' = [op |-> "send_batch_emails",
                           matches |-> matches, auto_send |-> auto_send,
                           ret |-> batch.results, sends |-> batch.sends]
               /\ dispatcher' = batch.dispatcher
               /\ history' =
                      [send_email |->
                           history.send_email \o BatchSends(batch.sends),
                       batch_failed |->
                           history.batch_failed + batch.results.failed]
    /\ UNCHANGED config

GetSendingStats ==
    /\ call = Idle
    /\ call' = [op |-> "get_sending_stats",
                ret |-> get_sending_stats(dispatcher)]
    /\ UNCHANGED <<config, dispatcher, history>>

(* One run of the match command.  The matcher and the dispatcher it builds
   are its own and end with it. *)
Match ==
    /\ call = Idle
    /\ \E auto_send \in BOOLEAN, min_score \in CliMinScores,
          preview \in {None, Some(TRUE), Some(FALSE)},
          user_profile \in {CliProfile},
          startup_list \in DistinctSeqsUpTo(CliStartups, MaxStartups - 1),
          saved \in BOOLEAN, config_valid \in BOOLEAN, delivered \in BOOLEAN :
         call' = [op |-> "match", auto_send |-> auto_send,
                  min_score |-> min_score, preview |-> preview,
                  user_profile |-> user_profile,
                  startup_list |-> startup_list,
                  saved |-> saved, config_valid |-> config_valid,
                  delivered |-> delivered,
                  ret |-> cli_match(auto_send, min_score, preview,
                                    user_profile, startup_list, saved,
                                    config_valid, delivered)]
    /\ UNCHANGED config
    /\ UNCHANGED mail

(* The caller takes the returned value (or the exception); the matcher keeps
   nothing of the call. *)
Return ==
    /\ call # Idle
    /\ call' = Idle
    /\ UNCHANGED config
    /\ UNCHANGED mail

Next ==
    \/ NewMatcher
    \/ ExtractTechStackSimilarity
    \/ ExtractDomainSimilarity
    \/ ExtractProjectRelevance
    \/ CalculateMatchScore
    \/ FindMatches
    \/ CalculateMatchScoreAgain
    \/ FindMatchesAgain
    \/ Return

Spec == Init /\ [][Next]_vars

(* The normalizer on its own. *)
NormalizerNext ==
    \/ PreprocessText
    \/ PreprocessTextAgain
    \/ Return

NormalizerSpec == Init /\ [][NormalizerNext]_vars

(* The match command. *)
CliNext ==
    \/ Match
    \/ Return

CliSpec == Init /\ [][CliNext]_vars

(* One EmailDispatcher and its callers. *)
DispatchNext ==
    \/ NewDispatcher
    \/ SendEmail
    \/ SendBatchEmails
    \/ GetSendingStats
    \/ Return

DispatchSpec == Init /\ [][DispatchNext]_vars

---------------------------------------------------------------------------
(* Properties of find_matches. *)

FindReturned == call.op = "find_matches" /\ ~call.ret.raised

(* What scoring each input startup of the recorded call yields. *)
ScoredInputs ==
    Elements([i \in 1..Len(call.startups) |->
        calculate_match_score(config, call.user_profile, call.startups[i])])

(* The input startups that clear the threshold, by index. *)
Clearing(scored) ==
    {i \in 1..Len(scored) :
        FGe(scored[i].score, config.min_score_threshold)}

(* The match due to each clearing input startup, by index. *)
DueMatches(scored) ==
    Elements([i \in 1..Len(scored) |->
        IF i \in Clearing(scored)
        THEN <<EmailMatch(call.startups[i], scored[i])>> ELSE <<>>])

RECURSIVE Flatten(_)
Flatten(xss) == IF xss = <<>> THEN <<>> ELSE Head(xss) \o Flatten(Tail(xss))

ScoresOf(matches) == {matches[j].match_score : j \in 1..Len(matches)}

WithScore(matches, v) == SelectSeq(matches, LAMBDA m : m.match_score = v)

(* The number of positions of a list holding the value m. *)
Count(xs, m) == Cardinality({j \in 1..Len(xs) : xs[j] = m})

(* C1: no match returned by find_matches has a match_score strictly below
   the configured min_score_threshold (and none has an undefined score). *)
C1_NoMatchBelowThreshold ==
    FindReturned =>
        \A j \in 1..Len(call.ret.matches) :
            /\ ~FLt(call.ret.matches[j].match_score, config.min_score_threshold)
            /\ ~IsNaN(call.ret.matches[j].match_score)

(* A call that returned a match and left out a startup scoring below. *)
C1_Witness ==
    /\ FindReturned
    /\ call.ret.matches # <<>>
    /\ LET scored == ScoredInputs
       IN  \E i \in 1..Len(scored) :
              FLt(scored[i].score, config.min_score_threshold)

(* C2: the returned list is in descending order of match_score, and the
   matches of equal score appear in the order of their startups in the
   input list. *)
C2_SortedDescendingStable ==
    FindReturned =>
        LET out == call.ret.matches
            unsorted == Flatten(DueMatches(ScoredInputs))
        IN  /\ \A j \in 1..Len(out) : \A k \in j..Len(out) :
                  FGe(out[j].match_score, out[k].match_score)
            /\ \A v \in ScoresOf(out) :
                  WithScore(out, v) = WithScore(unsorted, v)

(* A call whose sort reordered the matches and kept two distinguishable
   matches of equal score in input order. *)
C2_Witness ==
    /\ FindReturned
    /\ Len(call.ret.matches) = 3
    /\ call.ret.matches # Flatten(DueMatches(ScoredInputs))
    /\ \E j \in 1..2 :
         /\ call.ret.matches[j].match_score = call.ret.matches[j + 1].match_score
         /\ call.ret.matches[j] # call.ret.matches[j + 1]

(* C3: find_matches returns exactly one match for each input startup whose
   overall score is at least min_score_threshold and none for any other:
   the output has as many matches as startups clear the threshold, and the
   match of each clearing startup occurs as often as it is due. *)
C3_ExactlyTheClearing ==
    FindReturned =>
        LET out == call.ret.matches
            scored == ScoredInputs
            clearing == Clearing(scored)
            due == Flatten(DueMatches(scored))
        IN  /\ Len(out) = Cardinality(clearing)
            /\ Len(due) = Cardinality(clearing)
            /\ \A j \in 1..Len(due) : Count(out, due[j]) = Count(due, due[j])
            /\ \A j \in 1..Len(out) : Count(due, out[j]) > 0

(* Threshold 0.6 and three startups scoring 0.9, 0.5, 0.7: the call returns
   the two scoring 0.9 and 0.7, in that order. *)
C3_Witness ==
    /\ FindReturned
    /\ config.min_score_threshold = R(6, 10)
    /\ Len(call.startups) = 3
    /\ LET scored == ScoredInputs
       IN  [i \in 1..3 |-> scored[i].score] = <<R(9, 10), R(1, 2), R(7, 10)>>
    /\ [j \in 1..Len(call.ret.matches) |-> call.ret.matches[j].match_score]
         = <<R(9, 10), R(7, 10)>>

(* A list rearranged by a permutation of its indices. *)
Permuted(xs, p) == [i \in 1..Len(xs) |-> xs[p[i]]]

(* C11: the scoring of an entity does not depend on the other entities of
   the list or on the order of processing: find_matches keeps an entity of
   the list exactly when it keeps it from a list holding that entity alone,
   and with the same match; and on every permutation of the input list it
   ends the same way (returns, or raises) and returns the same matches as
   often, with the same sequence of scores, so that only matches of equal
   score change places. *)
C11_OrderIndependent ==
    call.op = "find_matches" =>
        LET out == call.ret
            alone == Elements([i \in 1..Len(call.startups) |->
                         find_matches(config, call.user_profile,
                                      <<call.startups[i]>>)])
        IN  /\ out.raised <=> \E i \in 1..Len(alone) : alone[i].raised
            /\ ~out.raised =>
                  /\ Len(out.matches) =
                        Cardinality({i \in 1..Len(alone) : alone[i].matches # <<>>})
                  /\ \A i \in 1..Len(alone) : \A j \in 1..Len(alone[i].matches) :
                        Count(out.matches, alone[i].matches[j]) > 0
            /\ \A p \in Permutations(1..Len(call.startups)) :
                  LET other == find_matches(config, call.user_profile,
                                            Permuted(call.startups, p))
                  IN  /\ other.raised = out.raised
                      /\ Len(other.matches) = Len(out.matches)
                      /\ \A j \in 1..Len(out.matches) :
                            /\ other.matches[j].match_score
                                  = out.matches[j].match_score
                            /\ Count(other.matches, out.matches[j])
                                  = Count(out.matches, out.matches[j])

(* Three startups of three different scores, one of them below the
   threshold, handed over in ascending order of score: the call returns the
   two that clear it, and so it does on the reversed list. *)
C11_Witness ==
    /\ FindReturned
    /\ Len(call.startups) = 3
    /\ Len(call.ret.matches) = 2
    /\ LET scored == ScoredInputs
       IN  /\ FLt(scored[1].score, scored[2].score)
           /\ FLt(scored[2].score, scored[3].score)
    /\ find_matches(config, call.user_profile,
                    Permuted(call.startups, <<3, 2, 1>>)) = call.ret

(* C14: the result of find_matches (the matches with their scores,
   rationale and relevant projects, in their order, or the exception) is
   the same under every config that differs from the config in effect in
   email_tone, in email_length or in both, and in nothing else. *)
C14_PresentationIgnored ==
    call.op = "find_matches" =>
        \A tone \in EmailTones, length \in EmailLengths :
            find_matches(WithPresentation(config, tone, length),
                         call.user_profile, call.startups) = call.ret

(* A matcher built with a tone and a length other than the defaults returned
   two matches of three startups, as a matcher with the defaults does. *)
C14_Witness ==
    /\ FindReturned
    /\ config.email_tone = "casual"
    /\ config.email_length = "detailed"
    /\ Len(call.startups) = 3
    /\ Len(call.ret.matches) = 2
    /\ call.ret.matches[1].relevant_projects # <<>>
    /\ find_matches(DefaultConfig, call.user_profile, call.startups) = call.ret

(* C15: every match returned by find_matches is the match of one of the
   input startups that clear the threshold: it carries that startup's
   company name, contact email and contact name as they are (an absent one
   stays absent) with that startup's score, rationale and relevant
   projects; its email_body and subject_line are empty and its auto_send
   is False. *)
C15_MatchCarriesEntityFields ==
    FindReturned =>
        LET out == call.ret.matches
            scored == ScoredInputs
        IN  \A j \in 1..Len(out) :
              /\ out[j].email_body = <<>>
              /\ out[j].subject_line = <<>>
              /\ out[j].auto_send = FALSE
              /\ \E i \in Clearing(scored) :
                    /\ out[j].company_name = call.startups[i].company_name
                    /\ out[j].contact_email = call.startups[i].contact_email
                    /\ out[j].contact_name = call.startups[i].contact_name
                    /\ out[j].match_score = scored[i].score
                    /\ out[j].rationale = scored[i].rationale
                    /\ out[j].relevant_projects = scored[i].relevant_projects

(* Three matches returned: one of a startup with both contact fields, one
   of a startup with neither, one of a startup with a name and no email;
   the first of them scores above 0.8. *)
C15_Witness ==
    /\ FindReturned
    /\ Len(call.ret.matches) = 3
    /\ FGe(call.ret.matches[1].match_score, R(8, 10))
    /\ call.ret.matches[1].contact_email = Some(ContactA)
    /\ call.ret.matches[1].contact_name = Some(<<"A">>)
    /\ \E j \in 2..3 :
          /\ call.ret.matches[j].contact_email = None
          /\ call.ret.matches[j].contact_name = None
    /\ \E j \in 2..3 :
          /\ call.ret.matches[j].contact_email = None
          /\ call.ret.matches[j].contact_name = Some(<<"B">>)
    /\ \A j \in 1..3 : ~call.ret.matches[j].auto_send

ScoringOps ==
    {"calculate_match_score", "calculate_match_score_again",
     "find_matches", "find_matches_again"}

(* The startups handed to the recorded call, as a list. *)
PassedStartups(c) ==
    IF c.op \in {"find_matches", "find_matches_again"}
    THEN c.startups ELSE <<c.startup>>

(* A step that is a call of find_matches or calculate_match_score leaves
   the config and the objects passed as they were; a second call right
   after a first one, on the same objects, ends as the first one did. *)
ScoringStepLeavesNoTrace ==
    /\ (call'.op \in ScoringOps) =>
          /\ config' = config
          /\ call'.after.user_profile = call'.user_profile
          /\ call'.after.startups = PassedStartups(call')
    /\ (call'.op = "find_matches_again") =>
          /\ call'.user_profile = call.user_profile
          /\ call'.startups = call.startups
          /\ call'.ret = call.ret
    /\ (call'.op = "calculate_match_score_again") =>
          /\ call'.user_profile = call.user_profile
          /\ call'.startup = call.startup

(* C12: every step that is a call of find_matches or calculate_match_score
   leaves the matcher's config as it was and leaves the profile, the list
   and every entity in it as they were passed, so that a second call finds
   them as the first did; and a second call of find_matches, made on the
   same matcher and the same objects right after a first one, returns (or
   raises) what the first one did. *)
C12_CallsLeaveNoTrace == [][ScoringStepLeavesNoTrace]_vars

(* A second call on a list in which two distinguishable startups score the
   same and a third scores higher: it returns the three matches in the
   order the first call did. *)
C12_Witness ==
    /\ call.op = "find_matches_again"
    /\ ~call.ret.raised
    /\ Len(call.ret.matches) = 3
    /\ call.ret = call.first
    /\ call.ret.matches[2].match_score = call.ret.matches[3].match_score
    /\ call.ret.matches[2] # call.ret.matches[3]
    /\ call.startups[3].company_name = call.ret.matches[1].company_name
    /\ FGt(call.ret.matches[1].match_score, call.ret.matches[2].match_score)

(* C13: a second call of calculate_match_score with the profile, the entity
   and the config of a first one (the provider answering the same for the
   same texts) ends as the first did: it raises if the first raised, and
   otherwise returns the same overall score, the same component scores,
   the same rationale list and the same relevant projects (an undefined
   score counts as the same outcome both times). *)
C13_SameInputsSameScore ==
    call.op = "calculate_match_score_again" =>
        /\ call.ret.raised = call.first.raised
        /\ ~call.ret.raised =>
              /\ call.ret.score = call.first.score
              /\ call.ret.rationale.overall_score
                    = call.first.rationale.overall_score
              /\ call.ret.rationale.tech_stack_alignment
                    = call.first.rationale.tech_stack_alignment
              /\ call.ret.rationale.domain_alignment
                    = call.first.rationale.domain_alignment
              /\ call.ret.rationale.project_relevance
                    = call.first.rationale.project_relevance
              /\ call.ret.rationale.reasoning = call.first.rationale.reasoning
              /\ call.ret.relevant_projects = call.first.relevant_projects

(* A repeated scoring with two projects, of which the config in effect
   lets both count, with a rationale and a relevant project to compare. *)
C13_Witness ==
    /\ call.op = "calculate_match_score_again"
    /\ ~call.ret.raised
    /\ Len(call.user_profile.projects) = 2
    /\ config.max_matches_per_company >= 2
    /\ call.ret.relevant_projects # <<>>
    /\ call.ret.rationale.reasoning # <<>>
    /\ ~IsNaN(call.ret.score)
    /\ call.ret = call.first

---------------------------------------------------------------------------
(* Properties of calculate_match_score and of the component scorers. *)

ScoreReturned == call.op = "calculate_match_score" /\ ~call.ret.raised

InUnitInterval(x) == FGe(x, Zero) /\ FLe(x, One)

(* C4: each of tech_stack_alignment, domain_alignment, project_relevance
   and overall_score returned by calculate_match_score lies in [0, 1]. *)
C4_ScoresInUnitInterval ==
    ScoreReturned =>
        /\ InUnitInterval(call.ret.rationale.tech_stack_alignment)
        /\ InUnitInterval(call.ret.rationale.domain_alignment)
        /\ InUnitInterval(call.ret.rationale.project_relevance)
        /\ InUnitInterval(call.ret.rationale.overall_score)

(* The input startups with every failed domain answer replaced by a cosine
   of zero, which scores the domain component 0.0. *)
DomainFailuresAsZero(startups) ==
    [i \in 1..Len(startups) |->
        IF startups[i].sem.domain.ok THEN startups[i]
        ELSE [startups[i] EXCEPT !.sem.domain = Cos(0, 1)]]

(* C5: when the provider fails in the domain scoring of a startup (and
   nowhere else), find_matches raises nothing and returns what it would
   return had that startup's domain score been 0.0: the other startups are
   scored as without the failure. *)
C5_DomainFailureContained ==
    (/\ call.op = "find_matches"
     /\ call.user_profile.projects # <<>>
     /\ \E i \in 1..Len(call.startups) : ~call.startups[i].sem.domain.ok)
    => /\ ~call.ret.raised
       /\ call.ret = find_matches(config, call.user_profile,
                                  DomainFailuresAsZero(call.startups))

ValidConfig(cfg) ==
    /\ FEq(FAdd(FAdd(cfg.include_tech_stack_weight, cfg.include_domain_weight),
                cfg.include_project_weight), One)
    /\ InUnitInterval(cfg.min_score_threshold)

(* C6: a MatchingConfig whose weights do not sum to 1.0, or whose threshold
   lies outside [0, 1], is never constructed, so the matcher never holds
   one and no call runs with one. *)
C6_InvalidConfigRejected == ValidConfig(config)

(* C7: the overall score returned by calculate_match_score equals the sum
   of the component scores stored in the returned rationale, weighted by
   the weights of the config in effect. *)
C7_OverallIsWeightedSum ==
    ScoreReturned =>
        LET r == call.ret.rationale
            weighted == WeightedScore(config, r.tech_stack_alignment,
                                      r.domain_alignment, r.project_relevance)
        IN  /\ FEq(r.overall_score, weighted)
            /\ FEq(call.ret.score, weighted)

(* The calls that return a list of relevant project names, and that list. *)
ProjectsReturned ==
    /\ call.op \in {"_extract_project_relevance", "calculate_match_score"}
    /\ ~call.ret.raised

ReturnedNames ==
    IF call.op = "calculate_match_score"
    THEN call.ret.relevant_projects ELSE call.ret.names

ReturnedRelevance ==
    IF call.op = "calculate_match_score"
    THEN call.ret.rationale.project_relevance ELSE call.ret.val

(* The similarity the provider gave for the i-th project of the call. *)
Similarity(i) == call.startup.sem.project[i].cos

AboveCutoff ==
    {i \in 1..Len(call.user_profile.projects) : FGt(Similarity(i), R(3, 10))}

(* The project of the call that carries a given name (names are distinct in
   the profiles drawn). *)
ProjectNamed(name) ==
    CHOOSE i \in 1..Len(call.user_profile.projects) :
        call.user_profile.projects[i].name = name

(* The returned names are those of limit projects, or of all the projects
   above the cutoff if they are fewer: distinct projects above the cutoff,
   none of them scoring below a project above the cutoff that was left out,
   listed from the highest similarity down. *)
HighestAboveCutoff(names, limit) ==
    LET picked == {ProjectNamed(names[j]) : j \in 1..Len(names)}
    IN  /\ \A j \in 1..Len(names) :
              \E i \in 1..Len(call.user_profile.projects) :
                  call.user_profile.projects[i].name = names[j]
        /\ Cardinality(picked) = Len(names)
        /\ picked \subseteq AboveCutoff
        /\ Len(names) = IF limit < Cardinality(AboveCutoff)
                        THEN limit ELSE Cardinality(AboveCutoff)
        /\ \A i \in picked : \A j \in AboveCutoff \ picked :
              FGe(Similarity(i), Similarity(j))
        /\ \A j \in 1..Len(names) : \A k \in j..Len(names) :
              FGe(Similarity(ProjectNamed(names[j])),
                  Similarity(ProjectNamed(names[k])))

(* C8 as stated: for every config, relevant_projects has at most
   max_matches_per_company names, the highest-scoring ones among the
   projects above the 0.3 cutoff. *)
C8_AtMostMaxHighest ==
    ProjectsReturned =>
        /\ Len(ReturnedNames) <= config.max_matches_per_company
        /\ HighestAboveCutoff(ReturnedNames, config.max_matches_per_company)

(* C8 as amended: the same, for a max_matches_per_company that is not
   negative. *)
C8_AtMostMaxHighest_NonNegative ==
    (ProjectsReturned /\ config.max_matches_per_company >= 0) =>
        /\ Len(ReturnedNames) <= config.max_matches_per_company
        /\ HighestAboveCutoff(ReturnedNames, config.max_matches_per_company)

(* max_matches_per_company = 2 and three projects all above the cutoff, the
   lowest of them first in the profile: two names are returned, and the
   first project is not among them. *)
C8_Witness ==
    /\ call.op = "_extract_project_relevance"
    /\ ~call.ret.raised
    /\ config.max_matches_per_company = 2
    /\ Len(call.user_profile.projects) = 3
    /\ AboveCutoff = {1, 2, 3}
    /\ FLt(Similarity(1), Similarity(2))
    /\ FLt(Similarity(1), Similarity(3))
    /\ Len(call.ret.names) = 2
    /\ call.user_profile.projects[1].name \notin Range(call.ret.names)

(* C9: when the startup's technology list or the candidate's combined list
   of project tags and skills is empty, the tech score is exactly 0.0 and
   no embedding call is made for the tech component. *)
C9_EmptyTechScoresZero ==
    /\ (/\ call.op = "_extract_tech_stack_similarity"
        /\ (call.user_tech = <<>> \/ call.startup_tech = <<>>))
       => /\ ~call.ret.raised
          /\ call.ret.val = Zero
          /\ call.ret.enc = <<>>
    /\ (/\ call.op = "calculate_match_score"
        /\ \/ ProjectTech(call.user_profile.projects)
                 \o call.user_profile.skills = <<>>
           \/ call.startup.tech_stack = <<>>)
       => /\ "tech" \notin Range(call.ret.enc)
          /\ ~call.ret.raised =>
                call.ret.rationale.tech_stack_alignment = Zero

(* A scoring of a candidate with technologies against a startup that lists
   none: the other components called the provider, the tech one did not. *)
C9_Witness ==
    /\ ScoreReturned
    /\ call.startup.tech_stack = <<>>
    /\ ProjectTech(call.user_profile.projects) \o call.user_profile.skills # <<>>
    /\ call.ret.enc # <<>>
    /\ "tech" \notin Range(call.ret.enc)
    /\ call.ret.rationale.tech_stack_alignment = Zero

(* C10: for a profile with no projects, project_relevance is exactly 0.0
   and relevant_projects is empty, whatever the startup and the config. *)
C10_NoProjectsNoRelevance ==
    /\ (ProjectsReturned /\ call.user_profile.projects = <<>>)
       => /\ ReturnedRelevance = Zero
          /\ ReturnedNames = <<>>
    /\ (call.op = "_extract_project_relevance"
        /\ call.user_profile.projects = <<>>)
       => ~call.ret.raised
    /\ (FindReturned /\ call.user_profile.projects = <<>>)
       => \A j \in 1..Len(call.ret.matches) :
             /\ call.ret.matches[j].rationale.project_relevance = Zero
             /\ call.ret.matches[j].relevant_projects = <<>>

(* A candidate with skills and no projects scored against a startup whose
   technologies match, under a config that keeps no project at all. *)
C10_Witness ==
    /\ ScoreReturned
    /\ call.user_profile.projects = <<>>
    /\ config.max_matches_per_company = 0
    /\ FGt(call.ret.rationale.tech_stack_alignment, Zero)
    /\ call.ret.rationale.project_relevance = Zero
    /\ call.ret.relevant_projects = <<>>

---------------------------------------------------------------------------
(* Properties of the tech-stack scorer. *)

(* A scoring of the scenario's profile against the startup on Python and
   AWS that returned. *)
ScenarioScored ==
    /\ ScoreReturned
    /\ call.user_profile = ScenarioProfile
    /\ call.startup.tech_stack = StackPythonAWS

(* The tech score of the startup of the call with its stack replaced by
   Ruby and PHP, the provider giving the cosine answer for that stack. *)
RubyPHPTechScore(answer) ==
    calculate_match_score(config, call.user_profile,
        [call.startup EXCEPT !.tech_stack = StackRubyPHP, !.sem.tech = answer])
        .rationale.tech_stack_alignment

(* C16 as stated: in the scenario the startup on Python and AWS gets a tech
   score strictly greater than the otherwise identical startup on Ruby and
   PHP, whatever cosines the provider gives for the two stacks. *)
C16_SharedStackScoresHigher ==
    ScenarioScored =>
        \A answer \in ScenarioAnswers :
            FGt(call.ret.rationale.tech_stack_alignment, RubyPHPTechScore(answer))

(* C16 as amended: the same, when the provider's cosine for the stack of
   Ruby and PHP is no greater than its cosine for the stack of Python and
   AWS. *)
C16_SharedStackScoresHigher_NoCloser ==
    ScenarioScored =>
        \A answer \in ScenarioAnswers :
            FLe(answer.cos, call.startup.sem.tech.cos) =>
                FGt(call.ret.rationale.tech_stack_alignment,
                    RubyPHPTechScore(answer))

(* The scenario with a cosine of 0.5 for both stacks: the shared Python
   among four listed technologies gives 0.7 * 1/4 + 0.3 * 0.5 = 0.325
   against 0.15. *)
C16_Witness ==
    /\ ScenarioScored
    /\ call.startup.sem.tech = Cos(1, 2)
    /\ call.ret.rationale.tech_stack_alignment = R(325, 1000)
    /\ RubyPHPTechScore(Cos(1, 2)) = R(15, 100)

(* The calls of the tech-stack scorer on two non-empty lists that the
   provider answered, with the lists, the cosine and the score. *)
TechScored ==
    \/ /\ call.op = "_extract_tech_stack_similarity"
       /\ call.user_tech # <<>>
       /\ call.startup_tech # <<>>
       /\ ~call.ret.raised
    \/ /\ ScoreReturned
       /\ ProjectTech(call.user_profile.projects) \o call.user_profile.skills # <<>>
       /\ call.startup.tech_stack # <<>>

TechUserList ==
    IF call.op = "calculate_match_score"
    THEN ProjectTech(call.user_profile.projects) \o call.user_profile.skills
    ELSE call.user_tech

TechStartupList ==
    IF call.op = "calculate_match_score"
    THEN call.startup.tech_stack ELSE call.startup_tech

TechCosine ==
    IF call.op = "calculate_match_score"
    THEN call.startup.sem.tech.cos ELSE call.answer.cos

TechScore ==
    IF call.op = "calculate_match_score"
    THEN call.ret.rationale.tech_stack_alignment ELSE call.ret.val

(* The normalized technologies of a list, as a set. *)
NormalizedSet(techs) == {_preprocess_text(techs[i]) : i \in 1..Len(techs)}

(* |A \cap B| / max(|A|, |B|) of two non-empty sets. *)
SetOverlap(A, B) ==
    R(Cardinality(A \cap B),
      IF Cardinality(A) >= Cardinality(B) THEN Cardinality(A) ELSE Cardinality(B))

(* C17: the tech score of two non-empty lists is 0.7 times the overlap
   |A \cap B| / max(|A|, |B|) of the set A of the candidate's normalized
   technologies (skills and project tags, each counted once) and the set B
   of the entity's normalized tags, plus 0.3 times the cosine, kept at 1.0
   at most. *)
C17_ExactOverlapOverSets ==
    TechScored =>
        TechScore =
            PyMin(FAdd(FMul(R(7, 10), SetOverlap(NormalizedSet(TechUserList),
                                                 NormalizedSet(TechStartupList))),
                       FMul(R(3, 10), TechCosine)),
                  One)

(* C18: the tech score of two non-empty lists lies in [0, 1]: it is never
   above 1.0 and never below 0.0, and it is 0.0 when no technology is
   shared and the cosine is negative. *)
C18_TechScoreClampedBothEnds ==
    TechScored =>
        /\ FLe(TechScore, One)
        /\ FGe(TechScore, Zero)
        /\ (/\ NormalizedSet(TechUserList) \cap NormalizedSet(TechStartupList) = {}
            /\ FLt(TechCosine, Zero))
           => TechScore = Zero

---------------------------------------------------------------------------
(* Properties of the domain scorer. *)

(* C19: the domain score is 0.0, with no embedding computed, whenever the
   candidate's text or the entity's text is empty once normalized (text of
   punctuation or whitespace only included); otherwise it is the cosine of
   the two texts, or 0.0 if the cosine is negative. *)
C19_DomainZeroWhenNormalizedEmpty ==
    call.op = "_extract_domain_similarity" =>
        IF \/ _preprocess_text(UserDomainText(call.user_profile.projects)) = <<>>
           \/ _preprocess_text(StartupDomainText(call.startup)) = <<>>
        THEN /\ ~call.ret.raised
             /\ call.ret.val = Zero
             /\ call.ret.enc = <<>>
        ELSE call.startup.sem.domain.ok =>
                /\ ~call.ret.raised
                /\ call.ret.val = PyMax(Zero, call.startup.sem.domain.cos)

---------------------------------------------------------------------------
(* Properties of the project scorer. *)

(* The sets of m projects of the call that are its m highest: none of them
   has a lower similarity than a project left out. *)
HighestProjects(m) ==
    {S \in SUBSET (1..Len(call.user_profile.projects)) :
        /\ Cardinality(S) = m
        /\ \A i \in S : \A j \in (1..Len(call.user_profile.projects)) \ S :
              FGe(Similarity(i), Similarity(j))}

(* The arithmetic mean of the similarities of a set of projects. *)
MeanSimilarity(S) ==
    LET all == [i \in 1..Len(call.user_profile.projects) |-> Similarity(i)]
        chosen == [i \in 1..Len(all) |-> IF i \in S THEN all[i] ELSE Zero]
    IN  IF S = {} THEN NaN
        ELSE FMul(SumSeq(Elements(chosen)), R(1, Cardinality(S)))

(* min(max_matches_per_company, number of projects) *)
ProjectsAveraged ==
    IF config.max_matches_per_company < Len(call.user_profile.projects)
    THEN config.max_matches_per_company
    ELSE Len(call.user_profile.projects)

(* project_relevance is the mean of the highest ProjectsAveraged
   similarities of the call. *)
IsMeanOfHighest ==
    \E S \in HighestProjects(ProjectsAveraged) :
        FEq(ReturnedRelevance, MeanSimilarity(S))

(* C20 as stated: for every config and every profile with at least one
   project, project_relevance is the arithmetic mean of the
   min(max_matches_per_company, number of projects) highest similarities,
   whether or not they exceed the 0.3 cutoff. *)
C20_MeanOfHighest ==
    (ProjectsReturned /\ call.user_profile.projects # <<>>) => IsMeanOfHighest

(* C20 as amended: the same, for a max_matches_per_company of at least 1. *)
C20_MeanOfHighest_Positive ==
    (/\ ProjectsReturned
     /\ call.user_profile.projects # <<>>
     /\ config.max_matches_per_company >= 1)
    => IsMeanOfHighest

(* max_matches_per_company = 2 and three projects with similarities -0.2,
   0.3 and -0.2, none above the cutoff: no project is relevant, and the
   relevance is the mean 0.05 of the two highest. *)
C20_Witness ==
    /\ call.op = "_extract_project_relevance"
    /\ ~call.ret.raised
    /\ config.max_matches_per_company = 2
    /\ Len(call.user_profile.projects) = 3
    /\ [i \in 1..3 |-> Similarity(i)] = <<R(-1, 5), R(3, 10), R(-1, 5)>>
    /\ call.ret.names = <<>>
    /\ call.ret.val = R(1, 20)

---------------------------------------------------------------------------
(* Properties of the text normalizer. *)

Normalized ==
    call.op \in {"_preprocess_text", "_preprocess_text_again"}

LowerAlnum == LowerChars \cup {"3"}

NoSpaceAtEnds(t) == t = <<>> \/ (t[1] # " " /\ t[Len(t)] # " ")
NoDoubleSpace(t) == \A i \in 1..Len(t) - 1 : ~(t[i] = " " /\ t[i + 1] = " ")

(* C21: the text normalizer maps empty or null input to the empty string;
   any other input yields only lowercase alphanumeric characters and single
   spaces (the underscore included among the characters replaced), with no
   leading, trailing or consecutive spaces, and normalizing a normalized
   string returns it unchanged. *)
C21_NormalizedAlnumAndSpaces ==
    Normalized =>
        /\ (call.text = None \/ call.text = Some(<<>>)) => call.ret = <<>>
        /\ \A i \in 1..Len(call.ret) : call.ret[i] \in LowerAlnum \cup {" "}
        /\ NoSpaceAtEnds(call.ret)
        /\ NoDoubleSpace(call.ret)
        /\ call.op = "_preprocess_text_again" => call.ret = call.first

(* The same with the underscore among the characters kept. *)
C21_NormalizedWordAndSpaces ==
    Normalized =>
        /\ (call.text = None \/ call.text = Some(<<>>)) => call.ret = <<>>
        /\ \A i \in 1..Len(call.ret) :
              call.ret[i] \in LowerAlnum \cup {"_", " "}
        /\ NoSpaceAtEnds(call.ret)
        /\ NoDoubleSpace(call.ret)
        /\ call.op = "_preprocess_text_again" => call.ret = call.first

---------------------------------------------------------------------------
(* Properties of the rationale. *)

Reasoning == call.ret.rationale.reasoning

BulletKinds == {Reasoning[i].kind : i \in 1..Len(Reasoning)}

(* The group of a bullet: tech, domain, projects, maturity stage, team size. *)
KindGroup(kind) ==
    CASE kind \in {"tech_matching", "tech_generic"} -> 1
      [] kind \in {"domain_strong", "domain_moderate"} -> 2
      [] kind \in {"project_direct", "project_multiple"} -> 3
      [] kind = "funding_stage" -> 4
      [] kind = "early_stage" -> 5

(* C22: in every rationale list the bullets come in the order tech, domain,
   projects, maturity stage, team size, at most one bullet of each group;
   the domain bullet is the strong form if the domain score exceeds 0.6,
   the moderate form if it exceeds 0.4 only, and absent otherwise. *)
C22_BulletsInFixedOrder ==
    ScoreReturned =>
        /\ \A i, j \in 1..Len(Reasoning) :
              i < j => KindGroup(Reasoning[i].kind) < KindGroup(Reasoning[j].kind)
        /\ "domain_strong" \in BulletKinds
              <=> FGt(call.ret.rationale.domain_alignment, R(6, 10))
        /\ "domain_moderate" \in BulletKinds
              <=> /\ FGt(call.ret.rationale.domain_alignment, R(4, 10))
                  /\ ~FGt(call.ret.rationale.domain_alignment, R(6, 10))

(* A rationale with a bullet of every group. *)
C22_Witness ==
    /\ ScoreReturned
    /\ Len(Reasoning) = 5
    /\ {KindGroup(k) : k \in BulletKinds} = 1..5

TechBulletDue == FGt(call.ret.rationale.tech_stack_alignment, R(1, 2))

(* The technologies of the candidate (project tags and skills) and of the
   startup, compared as the rationale compares them: lowercased. *)
LoweredSet(techs) == {StrLower(techs[i]) : i \in 1..Len(techs)}

SharedTechnologies ==
    LoweredSet(ProjectTech(call.user_profile.projects) \o call.user_profile.skills)
        \cap LoweredSet(call.startup.tech_stack)

(* C23: when the tech score exceeds 0.5, the number in the tech bullet is
   the count of technologies the candidate and the startup share; when that
   count is zero the generic note is emitted instead. *)
C23_TechBulletCountsShared ==
    (ScoreReturned /\ TechBulletDue) =>
        /\ Reasoning # <<>>
        /\ IF Cardinality(SharedTechnologies) > 0
           THEN Reasoning[1] =
                    Bullet("tech_matching", Cardinality(SharedTechnologies), <<>>)
           ELSE Reasoning[1] = Bullet("tech_generic", 0, <<>>)

(* The names the project bullets of the rationale carry. *)
NamedInRationale ==
    UNION {Range(Reasoning[i].names) :
             i \in {j \in 1..Len(Reasoning) :
                       KindGroup(Reasoning[j].kind) = 3}}

(* C24: every project name in relevant_projects appears in the rationale,
   for any number of relevant projects up to max_matches_per_company. *)
C24_EveryRelevantProjectNamed ==
    ScoreReturned => Range(call.ret.relevant_projects) \subseteq NamedInRationale

(* The same for at most two relevant projects. *)
C24_UpToTwoRelevantProjectsNamed ==
    (ScoreReturned /\ Len(call.ret.relevant_projects) <= 2)
        => Range(call.ret.relevant_projects) \subseteq NamedInRationale

(* C25: for every max_matches_per_company the configuration accepts, zero
   and negative values included, and every profile with at least one
   project, project_relevance and overall_score are defined numbers. *)
C25_ScoresDefinedForEveryLimit ==
    (ScoreReturned /\ call.user_profile.projects # <<>>)
        => /\ ~IsNaN(call.ret.rationale.project_relevance)
           /\ ~IsNaN(call.ret.score)

(* C26: in a rationale produced through calculate_match_score the generic
   tech bullet is never emitted: whenever the tech score exceeds 0.5 the
   startup's tech stack is non-empty, and the tech bullet is the one that
   counts matching technologies, with a positive count. *)
C26_NoGenericTechBullet ==
    ScoreReturned =>
        /\ "tech_generic" \notin BulletKinds
        /\ TechBulletDue =>
              /\ call.startup.tech_stack # <<>>
              /\ Reasoning # <<>>
              /\ Reasoning[1].kind = "tech_matching"
              /\ Reasoning[1].n > 0

(* A tech score above 0.5 on the smallest stack: one technology. *)
C26_Witness ==
    /\ ScoreReturned
    /\ TechBulletDue
    /\ Len(call.startup.tech_stack) = 1
    /\ Reasoning[1] = Bullet("tech_matching", 1, <<>>)

---------------------------------------------------------------------------
(* Properties of the dispatcher. *)

BatchReturned == call.op = "send_batch_emails"

IsSkipEntry(entry) == entry.success /\ "skipped" \in DOMAIN entry

(* The send_email calls the batch made for its i-th match. *)
SendsFor(i) == {k \in 1..Len(call.sends) : call.sends[k].index = i}

(* C27: send_batch_emails calls send_email for a match only if the
   auto_send argument and the match's own auto_send flag are both true;
   every other match is recorded as skipped, and no send (so no SMTP
   exchange) is made for it. *)
C27_SendsOnlyWhenBothFlags ==
    BatchReturned =>
        \A i \in 1..Len(call.matches) :
            IF call.auto_send /\ call.matches[i].auto_send
            THEN TRUE
            ELSE /\ SendsFor(i) = {}
                 /\ i <= Len(call.ret.results)
                 /\ IsSkipEntry(call.ret.results[i])

(* A batch called with auto_send true that sends for a flagged match, with
   an SMTP exchange, and skips an unflagged one. *)
C27_Witness ==
    /\ BatchReturned
    /\ call.auto_send
    /\ \E i, j \in 1..Len(call.matches) :
          /\ call.matches[i].auto_send
          /\ \E k \in SendsFor(i) : call.sends[k].smtp
          /\ ~call.matches[j].auto_send
          /\ IsSkipEntry(call.ret.results[j])

(* C29: the counters of a batch add up, sent + failed + skipped =
   total_matches = number of input matches, and results has one entry per
   input match, in input order. *)
C29_BatchCountersAddUp ==
    BatchReturned =>
        /\ call.ret.sent + call.ret.failed + call.ret.skipped
              = call.ret.total_matches
        /\ call.ret.total_matches = Len(call.matches)
        /\ Len(call.ret.results) = Len(call.matches)
        /\ \A i \in 1..Len(call.ret.results) :
              /\ call.ret.results[i].company = call.matches[i].company_name
              /\ IsSkipEntry(call.ret.results[i]) <=> SendsFor(i) = {}
              /\ \A k \in SendsFor(i) :
                    call.ret.results[i] = call.sends[k].result

(* A batch over two companies with one entry of each kind but the third:
   one sent and one failed, or one skipped beside one of the others. *)
C29_Witness ==
    /\ BatchReturned
    /\ Len(call.matches) = MaxSends
    /\ call.matches[1].company_name # call.matches[2].company_name
    /\ call.ret.sent = 1
    /\ call.ret.failed + call.ret.skipped = MaxSends - 1
    /\ call.ret.failed > 0

StatsReturned == call.op = "get_sending_stats"

(* C30: every send_email result with success false is in failed_emails and
   every one with success true in sent_emails, so the statistics report
   total_sent + total_failed equal to the number of send_email calls made
   and total_failed equal to the sum of the failed counters of the
   batches. *)
C30_EverySendRecorded ==
    /\ \A k \in 1..Len(history.send_email) :
          IF history.send_email[k].result.success
          THEN history.send_email[k].result \in Range(dispatcher.sent_emails)
          ELSE history.send_email[k].result \in Range(dispatcher.failed_emails)
    /\ StatsReturned =>
          /\ call.ret.total_sent + call.ret.total_failed
                = Len(history.send_email)
          /\ call.ret.total_failed = history.batch_failed

(* The send_email calls that reached the SMTP exchange. *)
SmtpSends == {k \in 1..Len(history.send_email) : history.send_email[k].smtp}

(* What holds of the calls that reached the SMTP exchange. *)
C30_EverySmtpSendRecorded ==
    /\ \A k \in SmtpSends :
          IF history.send_email[k].result.success
          THEN history.send_email[k].result \in Range(dispatcher.sent_emails)
          ELSE history.send_email[k].result \in Range(dispatcher.failed_emails)
    /\ StatsReturned =>
          call.ret.total_sent + call.ret.total_failed = Cardinality(SmtpSends)

---------------------------------------------------------------------------
(* Properties of the match command. *)

MatchRan == call.op = "match"

(* C28: in the match command an email is sent only for a match whose
   match_score is at least 0.8 and only when --auto-send was given; without
   the option no match has auto_send set and nothing is sent. *)
C28_CliSendsOnlyHighScores ==
    MatchRan =>
        /\ \A k \in 1..Len(call.ret.sends) :
              /\ call.auto_send
              /\ FGe(call.ret.matches[call.ret.sends[k].index].match_score,
                     R(8, 10))
        /\ ~call.auto_send =>
              /\ \A i \in 1..Len(call.ret.matches) :
                    ~call.ret.matches[i].auto_send
              /\ call.ret.sends = <<>>

(* A run without --auto-send that found a match scoring 0.8 or more and one
   scoring less, and sent nothing. *)
C28_Witness ==
    /\ MatchRan
    /\ ~call.auto_send
    /\ call.ret.sends = <<>>
    /\ \E i, j \in 1..Len(call.ret.matches) :
          /\ FGe(call.ret.matches[i].match_score, R(8, 10))
          /\ ~FGe(call.ret.matches[j].match_score, R(8, 10))

(* A run with --auto-send in which an email goes out. *)
C28_EmailSent ==
    /\ MatchRan
    /\ call.auto_send
    /\ \E k \in 1..Len(call.ret.sends) : call.ret.sends[k].result.success

====
